---- MODULE Spec2Model ----
(***************************************************************************)
(* Process-lifecycle shell of the bot (src/bot.py): credential check and   *)
(* client construction, storage / dispatcher / health-check server         *)
(* construction, handler import with the path-based fallback, the startup  *)
(* and shutdown hooks, main() and the entry-point guard.                   *)
(*                                                                         *)
(* The module's top level is modelled statement by statement with a        *)
(* program counter named after the source line about to execute.  The      *)
(* environment supplies: the credential, how the module is run, the PORT   *)
(* variable, the outcome of every import / file load, the outcome of the   *)
(* listener start, the polling loop's events.                              *)
(***************************************************************************)
EXTENDS Integers, Sequences, FiniteSets, TLC

VARIABLES
    token,        \* config.bot_token, classified (line 9)
    runAs,        \* value of __name__: "__main__" or "imported" (line 116)
    pc,           \* source line about to execute; "exited" after termination
    bot,          \* global bot: 0 = None, else the Client's identity
    storage,      \* global storage: 0 = not yet created, else the store's identity
    dp,           \* global dp: [bot, storage] it was bound to (0,0 = not created)
    web_server,   \* global web_server: [bot, port] (bot 0 = not created)
    made,         \* how many objects of each class were constructed
    portEnv,      \* os.environ["PORT"]: [set, val] read at line 41
    importResult, \* outcome of "import handlers" (line 45), "none" before
    dirSeen,      \* os.path.isdir(pkg_dir) (line 50): "unknown"/"present"/"absent"
    fallbackRuns, \* how many times the except-branch of line 46 was entered
    loadResult,   \* per handler name: outcome of its fallback load, "none" before
    attempts,     \* fallback load attempts, in order (names)
    subIdx,       \* index into SubModules of the loop of line 62
    sysModules,   \* handler names present in sys.modules
    loaded,       \* handler names whose code executed to completion
    mainCoro,     \* coroutine object of main(): "none"/"created"/"running"/"returned"
    pending,      \* exception travelling through the executor: "none" or its kind
    listener,     \* web_server.start_server(): "idle"/"pending"/"up"/"failed"
    calls,        \* counters: hooks run, listener starts, start_polling calls
    storeTrace,   \* calls on stores: <<operation, "call" or "done", store>>, in order
    stopSignal,   \* an operator stop signal (KeyboardInterrupt) was delivered
    updates,      \* updates consumed by the polling loop
    log,          \* logger output, in order
    exitStatus,   \* -1 while the process runs, else its exit status
    crashed       \* the process ended by an uncaught exception (traceback)

vars == <<token, runAs, pc, bot, storage, dp, web_server, made, portEnv,
          importResult, dirSeen, fallbackRuns, loadResult, attempts, subIdx,
          sysModules, loaded, mainCoro, pending, listener, calls, storeTrace,
          stopSignal, updates, log, exitStatus, crashed>>

topVars  == <<bot, storage, dp, web_server, made, portEnv>>
loadVars == <<importResult, dirSeen, fallbackRuns, loadResult, attempts, subIdx,
              sysModules, loaded>>
runVars  == <<mainCoro, pending, listener, calls, storeTrace, stopSignal, updates>>

----------------------------------------------------------------------------
(* Bounds *)

\* Updates the polling loop may consume before it is stopped.
MaxUpdates == 2

\* Longest PORT string enumerated.
MaxPortLen == 2

----------------------------------------------------------------------------
(* Inputs *)

\* bot_token as the code distinguishes it: falsy (line 23), rejected by
\* Bot() with ValidationError (line 28), Bot() failing otherwise (line 31),
\* accepted.
Credentials == {"empty", "invalid", "initerr", "valid"}

RunModes == {"__main__", "imported"}

PortChars == {"0", "8", "x"}
Digits == {"0", "8"}

PortStrings == UNION {[1..n -> PortChars] : n \in 0..MaxPortLen}

PortEnvs == {[set |-> FALSE, val |-> <<>>]} \cup
            {[set |-> TRUE, val |-> s] : s \in PortStrings}

\* Outcomes of "import handlers": success; ModuleNotFoundError because the
\* handlers tree is not found; ModuleNotFoundError raised by an import made
\* inside an existing handlers package; any other exception.
ImportResults == {"ok", "mnf_tree", "mnf_inner", "other"}

\* Outcomes of one file-path load (lines 53-59, 68-71): the exception is
\* raised before the sys.modules insertion, raised by exec_module, or not
\* raised.
LoadResults == {"create_fail", "exec_fail", "ok"}

\* Outcomes of awaiting web_server.start_server() (line 83)
StartResults == {"ok", "raise"}

\* Outcomes of executor.start_polling establishing the loop (line 109)
EstablishResults == {"ok", "raise"}

Package == "handlers"

\* The list of line 62-66, in its order
SubModules == <<"handlers.start", "handlers.admin", "handlers.owner">>

SubNames == {SubModules[i] : i \in 1..Len(SubModules)}

HandlerNames == {Package} \cup SubNames

\* Default of os.environ.get("PORT", 8080)
DefaultPort == 8080

NoDp == [bot |-> 0, storage |-> 0]
NoServer == [bot |-> 0, port |-> 0]

----------------------------------------------------------------------------
(* Pure helpers *)

DigitValue(c) == IF c = "8" THEN 8 ELSE 0

\* int(s) on a string of decimal digits
RECURSIVE IntOf(_)
IntOf(s) == IF Len(s) = 0 THEN 0
            ELSE 10 * IntOf(SubSeq(s, 1, Len(s) - 1)) + DigitValue(s[Len(s)])

\* int(s) raises ValueError unless s is a non-empty digit string
IsIntLiteral(s) == Len(s) > 0 /\ \A i \in 1..Len(s) : s[i] \in Digits

PortOfIgnoresEnv(env) == DefaultPort

\* int(os.environ.get("PORT", 8080)): -1 stands for the ValueError
PortOf(env) == IF ~env.set THEN DefaultPort
               ELSE IF IsIntLiteral(env.val) THEN IntOf(env.val) ELSE -1

\* Outcome of the try block of lines 22-26 for a credential
CredentialOutcome(tok) ==
    CASE tok = "empty"   -> "ValueError"
      [] tok = "invalid" -> "ValidationError"
      [] tok = "initerr" -> "Exception"
      [] OTHER           -> "ok"

\* Value of the global bot after lines 22-33
BotAfterInit(outcome, id) == IF outcome = "ok" THEN id ELSE 0

\* Log line of lines 27, 29, 32
BotInitLog(outcome) ==
    CASE outcome = "ok"              -> "Bot initialized successfully"
      [] outcome = "ValidationError" -> "Invalid bot token provided"
      [] OTHER                       -> "Failed to initialize bot"

ClientPresentAlways(b) == TRUE

\* "if bot:" of line 37
ClientPresent(b) == b # 0

EntersFallbackOnAnyError(r) == r # "ok"

\* "except ModuleNotFoundError" of line 46
EntersFallback(r) == r \in {"mnf_tree", "mnf_inner"}

Logged(msg) == \E i \in 1..Len(log) : log[i] = msg

----------------------------------------------------------------------------
Init ==
    /\ token \in Credentials
    /\ runAs \in RunModes
    /\ pc = "L22"
    /\ bot = 0
    /\ storage = 0
    /\ dp = NoDp
    /\ web_server = NoServer
    /\ made = [client |-> 0, store |-> 0, dispatcher |-> 0, server |-> 0]
    /\ portEnv = [set |-> FALSE, val |-> <<>>]
    /\ importResult = "none"
    /\ dirSeen = "unknown"
    /\ fallbackRuns = 0
    /\ loadResult = [n \in HandlerNames |-> "none"]
    /\ attempts = <<>>
    /\ subIdx = 1
    /\ sysModules = {}
    /\ loaded = {}
    /\ mainCoro = "none"
    /\ pending = "none"
    /\ listener = "idle"
    /\ calls = [startup |-> 0, shutdown |-> 0, listenerStart |-> 0, polling |-> 0,
                mainBody |-> 0]
    /\ storeTrace = <<>>
    /\ stopSignal = FALSE
    /\ updates = 0
    /\ log = <<>>
    /\ exitStatus = -1
    /\ crashed = FALSE


----------------------------------------------------------------------------
(* Module top level, lines 22-75 *)

Say(msg) == log' = Append(log, msg)

\* sys.exit(status) / interpreter termination
Exit(status) == /\ pc' = "exited"
                /\ exitStatus' = status

\* An exception nobody catches at the top level: traceback, status 1
Crash == /\ Exit(1)
         /\ crashed' = TRUE

\* Lines 22-33: credential check and Bot(...) inside try/except
InitBot ==
    /\ pc = "L22"
    /\ LET outcome == CredentialOutcome(token)
           id == made.client + 1
       IN /\ bot' = BotAfterInit(outcome, id)
          /\ made' = IF outcome = "ok" THEN [made EXCEPT !.client = id] ELSE made
          /\ Say(BotInitLog(outcome))
    /\ pc' = "L36"
    /\ UNCHANGED <<token, runAs, storage, dp, web_server, portEnv, loadVars,
                   runVars, exitStatus, crashed>>

\* Line 36: storage = MemoryStorage(), whatever bot is
CreateStorage ==
    /\ pc = "L36"
    /\ storage' = made.store + 1
    /\ made' = [made EXCEPT !.store = made.store + 1]
    /\ pc' = "L37"
    /\ UNCHANGED <<token, runAs, bot, dp, web_server, portEnv, loadVars, runVars,
                   log, exitStatus, crashed>>

DispatcherOwnStorage(b, s) == [bot |-> b, storage |-> s + 1]

\* Dispatcher(bot, storage=storage): what the new Dispatcher is bound to
DispatcherBinding(b, s) == [bot |-> b, storage |-> s]

CreateDispatcherDeferred ==
    /\ pc = "L37"
    /\ ClientPresent(bot)
    /\ pc' = "L41"
    /\ UNCHANGED <<token, runAs, topVars, loadVars, runVars, log, exitStatus, crashed>>

\* Lines 37-38: if bot: dp = Dispatcher(bot, storage=storage)
CreateDispatcher ==
    /\ pc = "L37"
    /\ ClientPresent(bot)
    /\ dp' = DispatcherBinding(bot, storage)
    /\ made' = [made EXCEPT !.dispatcher = made.dispatcher + 1]
    /\ pc' = "L41"
    /\ UNCHANGED <<token, runAs, bot, storage, web_server, portEnv, loadVars,
                   runVars, log, exitStatus, crashed>>

\* Lines 123-125: else: logger.error(...); sys.exit(1)
AbortStartup ==
    /\ pc = "L37"
    /\ ~ClientPresent(bot)
    /\ Say("Dispatcher not created due to bot initialization failure")
    /\ Exit(1)
    /\ UNCHANGED <<token, runAs, topVars, loadVars, runVars, crashed>>

\* Line 41: web_server = HealthCheckServer(bot, port=int(os.environ.get("PORT", 8080)))
\* int() raising ValueError is caught nowhere.
CreateWebServer ==
    /\ pc = "L41"
    /\ \E env \in PortEnvs :
         /\ portEnv' = env
         /\ IF PortOf(env) >= 0
            THEN /\ web_server' = [bot |-> bot, port |-> PortOf(env)]
                 /\ made' = [made EXCEPT !.server = made.server + 1]
                 /\ pc' = "L45"
                 /\ UNCHANGED <<exitStatus, crashed>>
            ELSE /\ Crash
                 /\ UNCHANGED <<web_server, made>>
    /\ UNCHANGED <<token, runAs, bot, storage, dp, loadVars, runVars, log>>

\* Lines 44-46: import handlers; only ModuleNotFoundError is caught
ImportHandlers ==
    /\ pc = "L45"
    /\ \E r \in ImportResults :
         /\ importResult' = r
         /\ IF r = "ok"
            THEN /\ sysModules' = sysModules \cup HandlerNames
                 /\ loaded' = loaded \cup HandlerNames
                 /\ pc' = "L116"
                 /\ UNCHANGED <<exitStatus, crashed>>
            ELSE IF EntersFallback(r)
            THEN /\ pc' = "L47"
                 /\ UNCHANGED <<sysModules, loaded, exitStatus, crashed>>
            ELSE /\ Crash
                 /\ UNCHANGED <<sysModules, loaded>>
    /\ UNCHANGED <<token, runAs, topVars, dirSeen, fallbackRuns, loadResult,
                   attempts, subIdx, runVars, log>>

\* Lines 47-50 and 74-75: sys.path insertion, os.path.isdir(pkg_dir)
FallbackLocate ==
    /\ pc = "L47"
    /\ fallbackRuns' = fallbackRuns + 1
    /\ \E present \in BOOLEAN :
         IF present
         THEN /\ dirSeen' = "present"
              /\ pc' = "L52"
              /\ UNCHANGED log
         ELSE /\ dirSeen' = "absent"
              /\ Say("Handlers directory not found")
              /\ pc' = "L116"
    /\ UNCHANGED <<token, runAs, topVars, importResult, loadResult, attempts,
                   subIdx, sysModules, loaded, runVars, exitStatus, crashed>>

RegistryAfterExecOnly(reg, name, r) == IF r = "ok" THEN reg \cup {name} ELSE reg

\* sys.modules after one file-path load attempt (lines 58, 70)
RegistryAfter(reg, name, r) == IF r = "create_fail" THEN reg ELSE reg \cup {name}

\* Modules executed to completion after one attempt (lines 59, 71)
LoadedAfter(ld, name, r) == IF r = "ok" THEN ld \cup {name} ELSE ld

FailMsg(name) ==
    CASE name = "handlers"       -> "Failed to load handlers package"
      [] name = "handlers.start" -> "Failed to import handlers.start"
      [] name = "handlers.admin" -> "Failed to import handlers.admin"
      [] OTHER                   -> "Failed to import handlers.owner"

\* One try/except of the fallback: lines 52-61 or 67-73
LoadByPath(name, r) ==
    /\ attempts' = Append(attempts, name)
    /\ loadResult' = [loadResult EXCEPT ![name] = r]
    /\ sysModules' = RegistryAfter(sysModules, name, r)
    /\ loaded' = LoadedAfter(loaded, name, r)
    /\ log' = IF r = "ok" THEN log ELSE Append(log, FailMsg(name))

LoadPackageAbortsOnFailure ==
    /\ pc = "L52"
    /\ \E r \in LoadResults :
         /\ LoadByPath(Package, r)
         /\ pc' = IF r = "ok" THEN "L62" ELSE "L116"
    /\ UNCHANGED <<token, runAs, topVars, importResult, dirSeen, fallbackRuns,
                   subIdx, runVars, exitStatus, crashed>>

\* Lines 52-61: the package initializer
LoadPackage ==
    /\ pc = "L52"
    /\ \E r \in LoadResults : LoadByPath(Package, r)
    /\ pc' = "L62"
    /\ UNCHANGED <<token, runAs, topVars, importResult, dirSeen, fallbackRuns,
                   subIdx, runVars, exitStatus, crashed>>

NextSubIdxStopOnFailure(i, r) == IF r = "ok" THEN i + 1 ELSE Len(SubModules) + 1

\* The for loop of line 62 goes on to the next entry whatever the outcome
NextSubIdx(i, r) == i + 1

\* Lines 62-73: one iteration of the submodule loop
LoadSubmodule ==
    /\ pc = "L62"
    /\ subIdx <= Len(SubModules)
    /\ \E r \in LoadResults :
         /\ LoadByPath(SubModules[subIdx], r)
         /\ subIdx' = NextSubIdx(subIdx, r)
         /\ pc' = IF NextSubIdx(subIdx, r) > Len(SubModules) THEN "L116" ELSE "L62"
    /\ UNCHANGED <<token, runAs, topVars, importResult, dirSeen, fallbackRuns,
                   runVars, exitStatus, crashed>>

----------------------------------------------------------------------------
(* Entry point, lines 116-122 *)

\* Line 116: if __name__ == "__main__"
EntryGuard ==
    /\ pc = "L116"
    /\ pc' = IF runAs = "__main__" THEN "L118" ELSE "imported"
    /\ UNCHANGED <<token, runAs, topVars, loadVars, runVars, log, exitStatus, crashed>>

\* What calling the coroutine function main() gives: main is "async def"
\* (line 98) and line 118 calls it without awaiting it or handing it to an
\* event loop, so the call builds a coroutine object and runs none of the body.
MainCallResult == "created"

\* Line 118: main()
CallMain ==
    /\ pc = "L118"
    /\ mainCoro' = MainCallResult
    /\ pc' = "end"
    /\ UNCHANGED <<token, runAs, topVars, loadVars, pending, listener, calls,
                   storeTrace, stopSignal, updates, log, exitStatus, crashed>>

\* Lines 119-120: KeyboardInterrupt delivered inside the try of line 117
MainCallInterrupted ==
    /\ pc = "L118"
    /\ stopSignal' = TRUE
    /\ Say("Bot stopped by user")
    /\ pc' = "end"
    /\ UNCHANGED <<token, runAs, topVars, loadVars, mainCoro, pending, listener,
                   calls, storeTrace, updates, exitStatus, crashed>>

\* End of the module's code: the interpreter terminates with status 0
ProcessExit ==
    /\ pc = "end"
    /\ Exit(0)
    /\ UNCHANGED <<token, runAs, topVars, loadVars, runVars, log, crashed>>


----------------------------------------------------------------------------
(* main(), lines 98-114, and the hooks, lines 77-96.  Their bodies run     *)
(* only when an event loop drives the coroutines: the importer of the      *)
(* module awaits main(); executor.start_polling (aiogram) runs on_startup  *)
(* before the polling loop and on_shutdown when the loop has stopped.      *)

\* The importing program awaits main()
AwaitMain ==
    /\ pc = "imported"
    /\ mainCoro = "none"
    /\ mainCoro' = "running"
    /\ pc' = "M100"
    /\ UNCHANGED <<token, runAs, topVars, loadVars, pending, listener, calls,
                   storeTrace, stopSignal, updates, log, exitStatus, crashed>>

\* Lines 100-111: the check of bot, then executor.start_polling(dp, ...),
\* which may fail while the loop is being established
MainBody ==
    /\ pc = "M100"
    /\ IF ~ClientPresent(bot)
       THEN /\ Say("Bot not initialized. Exiting.")
            /\ calls' = [calls EXCEPT !.mainBody = @ + 1]
            /\ pc' = "Mret"
            /\ UNCHANGED pending
       ELSE /\ Say("Starting bot polling...")
            /\ calls' = [calls EXCEPT !.mainBody = @ + 1, !.polling = @ + 1]
            /\ \E e \in EstablishResults :
                 IF e = "ok"
                 THEN pc' = "S79" /\ UNCHANGED pending
                 ELSE pc' = "M113" /\ pending' = "Exception"
    /\ UNCHANGED <<token, runAs, topVars, loadVars, mainCoro, listener, storeTrace,
                   stopSignal, updates, exitStatus, crashed>>

OnStartupEnterNoAwait ==
    /\ pc = "S79"
    /\ Say("Bot is starting up...")
    /\ calls' = [calls EXCEPT !.startup = @ + 1, !.listenerStart = @ + 1]
    /\ listener' = "pending"
    /\ pc' = "polling"
    /\ UNCHANGED <<token, runAs, topVars, loadVars, mainCoro, pending, storeTrace,
                   stopSignal, updates, exitStatus, crashed>>

\* Lines 79-83: on_startup up to the await of web_server.start_server()
OnStartupEnter ==
    /\ pc = "S79"
    /\ Say("Bot is starting up...")
    /\ calls' = [calls EXCEPT !.startup = @ + 1, !.listenerStart = @ + 1]
    /\ listener' = "pending"
    /\ pc' = "S83"
    /\ UNCHANGED <<token, runAs, topVars, loadVars, mainCoro, pending, storeTrace,
                   stopSignal, updates, exitStatus, crashed>>

StartupHookLetsFailureThrough(r) == IF r = "raise" THEN "raised" ELSE "returned"

\* How on_startup ends for an outcome of start_server(): the try/except of
\* lines 82-86 leaves no exception to the caller
StartupHookEnd(r) == "returned"

\* Lines 83-86: start_server() completed or raised; the hook ends and the
\* executor enters the polling loop (or unwinds through its shutdown)
OnStartupResume ==
    /\ pc = "S83"
    /\ \E r \in StartResults :
         /\ listener' = IF r = "ok" THEN "up" ELSE "failed"
         /\ IF StartupHookEnd(r) = "returned"
            THEN /\ Say(IF r = "ok" THEN "Health check server started successfully"
                                    ELSE "Failed to start health check server")
                 /\ pc' = "polling"
                 /\ UNCHANGED pending
            ELSE /\ pending' = "Exception"
                 /\ pc' = "D90"
                 /\ UNCHANGED log
    /\ UNCHANGED <<token, runAs, topVars, loadVars, mainCoro, calls, storeTrace,
                   stopSignal, updates, exitStatus, crashed>>

\* The polling loop consumes one update
ConsumeUpdate ==
    /\ pc = "polling"
    /\ updates < MaxUpdates
    /\ updates' = updates + 1
    /\ UNCHANGED <<token, runAs, pc, topVars, loadVars, mainCoro, pending, listener,
                   calls, storeTrace, stopSignal, log, exitStatus, crashed>>

\* The operator's stop signal ends the polling loop
StopSignal ==
    /\ pc = "polling"
    /\ stopSignal' = TRUE
    /\ pc' = "D90"
    /\ UNCHANGED <<token, runAs, topVars, loadVars, mainCoro, pending, listener,
                   calls, storeTrace, updates, log, exitStatus, crashed>>

\* The polling loop ends by an exception
PollingFails ==
    /\ pc = "polling"
    /\ pending' = "Exception"
    /\ pc' = "D90"
    /\ UNCHANGED <<token, runAs, topVars, loadVars, mainCoro, listener, calls,
                   storeTrace, stopSignal, updates, log, exitStatus, crashed>>

ShutdownCallsSwapped == <<"wait_closed", "close">>

\* The two awaited calls of on_shutdown, lines 93-94, in their order
ShutdownCalls == <<"close", "wait_closed">>

\* Lines 90-93: on_shutdown up to its first await, on dp.storage
OnShutdownEnter ==
    /\ pc = "D90"
    /\ Say("Bot is shutting down...")
    /\ calls' = [calls EXCEPT !.shutdown = @ + 1]
    /\ storeTrace' = Append(storeTrace, <<ShutdownCalls[1], "call", dp.storage>>)
    /\ pc' = "D93"
    /\ UNCHANGED <<token, runAs, topVars, loadVars, mainCoro, pending, listener,
                   stopSignal, updates, exitStatus, crashed>>

\* Lines 93-94: the first call completed, the second is awaited
OnShutdownResume93 ==
    /\ pc = "D93"
    /\ storeTrace' = storeTrace \o << <<ShutdownCalls[1], "done", dp.storage>>,
                                      <<ShutdownCalls[2], "call", dp.storage>> >>
    /\ pc' = "D94"
    /\ UNCHANGED <<token, runAs, topVars, loadVars, mainCoro, pending, listener,
                   calls, stopSignal, updates, log, exitStatus, crashed>>

\* Lines 94-96: the second call completed, the final log line, return
OnShutdownResume94 ==
    /\ pc = "D94"
    /\ storeTrace' = Append(storeTrace, <<ShutdownCalls[2], "done", dp.storage>>)
    /\ Say("Bot shutdown complete")
    /\ pc' = "Xret"
    /\ UNCHANGED <<token, runAs, topVars, loadVars, mainCoro, pending, listener,
                   calls, stopSignal, updates, exitStatus, crashed>>

\* executor.start_polling returns to line 111, or re-raises the polling
\* loop's exception into the try of line 104
ExecutorReturn ==
    /\ pc = "Xret"
    /\ pc' = IF pending = "none" THEN "Mret" ELSE "M113"
    /\ UNCHANGED <<token, runAs, topVars, loadVars, runVars, log, exitStatus, crashed>>

MainExceptMissing ==
    /\ pc = "M113"
    /\ Crash
    /\ UNCHANGED <<token, runAs, topVars, loadVars, runVars, log>>

\* Lines 113-114: except Exception: logger.error(...)
MainExcept ==
    /\ pc = "M113"
    /\ pending' = "none"
    /\ Say("Error starting bot")
    /\ pc' = "Mret"
    /\ UNCHANGED <<token, runAs, topVars, loadVars, mainCoro, listener, calls,
                   storeTrace, stopSignal, updates, exitStatus, crashed>>

\* main() returns to whoever awaited it; nothing follows
MainReturn ==
    /\ pc = "Mret"
    /\ mainCoro' = "returned"
    /\ pc' = "end"
    /\ UNCHANGED <<token, runAs, topVars, loadVars, pending, listener, calls,
                   storeTrace, stopSignal, updates, log, exitStatus, crashed>>

----------------------------------------------------------------------------
Next ==
    \/ InitBot
    \/ CreateStorage
    \/ CreateDispatcher
    \/ AbortStartup
    \/ CreateWebServer
    \/ ImportHandlers
    \/ FallbackLocate
    \/ LoadPackage
    \/ LoadSubmodule
    \/ EntryGuard
    \/ CallMain
    \/ MainCallInterrupted
    \/ ProcessExit
    \/ AwaitMain
    \/ MainBody
    \/ OnStartupEnter
    \/ OnStartupResume
    \/ ConsumeUpdate
    \/ StopSignal
    \/ PollingFails
    \/ OnShutdownEnter
    \/ OnShutdownResume93
    \/ OnShutdownResume94
    \/ ExecutorReturn
    \/ MainExcept
    \/ MainReturn

Spec == Init /\ [][Next]_vars


----------------------------------------------------------------------------
(* Properties *)

ValidRun == token = "valid"

Exited == pc = "exited"

HasEvent(op, phase, s) == \E i \in 1..Len(storeTrace) : storeTrace[i] = <<op, phase, s>>

EventCount(op, phase) ==
    Cardinality({i \in 1..Len(storeTrace) :
                    storeTrace[i][1] = op /\ storeTrace[i][2] = phase})

\* on_shutdown was entered and is not suspended inside its body
ShutdownHookReturned == calls.shutdown > 0 /\ pc \notin {"D93", "D94"}

\* The fallback's load loop (lines 52-73) has run to its end
FallbackLoopDone == dirSeen = "present" /\ pc \notin {"L52", "L62"}

\* C1: with an empty or rejected credential, or any other failure of the
\* client constructor, bot stays None, the only way on is sys.exit(1), and
\* neither the handler import, nor the fallback, nor a Dispatcher, nor the
\* health-check server (constructed or started) ever happens.
C1_BadCredentialAborts ==
    ~ValidRun =>
        /\ bot = 0
        /\ made.client = 0
        /\ pc \in {"L22", "L36", "L37", "exited"}
        /\ exitStatus \in {-1, 1}
        /\ (Exited => exitStatus = 1)
        /\ importResult = "none"
        /\ fallbackRuns = 0
        /\ attempts = <<>>
        /\ sysModules = {}
        /\ made.dispatcher = 0
        /\ dp = NoDp
        /\ made.server = 0
        /\ web_server = NoServer
        /\ calls.listenerStart = 0
        /\ listener = "idle"

C1_Witness == ~ValidRun /\ Exited /\ exitStatus = 1

\* C2: run as the entry point with a valid credential (and nothing else
\* failing), the process ends only after main()'s body ran, start_polling
\* was called and the loop was stopped by a signal or ended.
C2_EntryPointRunsPolling ==
    (runAs = "__main__" /\ ValidRun /\ Exited /\ ~crashed) =>
        /\ calls.mainBody >= 1
        /\ calls.polling >= 1

\* C3: wait_closed is called on a store only after close was called on it
\* and completed; on_shutdown returns, and "Bot shutdown complete" is logged,
\* only after wait_closed completed.
C3_CloseThenWaitClosed ==
    /\ \A i \in 1..Len(storeTrace) :
          (storeTrace[i][1] = "wait_closed" /\ storeTrace[i][2] = "call") =>
              \E j \in 1..(i - 1) : storeTrace[j] = <<"close", "done", storeTrace[i][3]>>
    /\ (ShutdownHookReturned \/ Logged("Bot shutdown complete")) =>
          HasEvent("wait_closed", "done", dp.storage)

C3_Witness == ShutdownHookReturned /\ Logged("Bot shutdown complete")

\* C4: a run with a valid credential that an operator's stop signal ended has
\* run on_shutdown exactly once, called close and wait_closed exactly once
\* each, both to completion, and exits with status 0.
C4_StopSignalShutsDownOnce ==
    (ValidRun /\ stopSignal /\ Exited) =>
        /\ calls.shutdown = 1
        /\ EventCount("close", "call") = 1
        /\ EventCount("close", "done") = 1
        /\ EventCount("wait_closed", "call") = 1
        /\ EventCount("wait_closed", "done") = 1
        /\ exitStatus = 0

\* C5: a ModuleNotFoundError of the conventional import enters the fallback
\* exactly once; with the handlers directory absent nothing is loaded, the
\* error is logged, nothing aborts, and the process gets to run: a process
\* that ended by itself (no stop signal, no failure to establish the loop)
\* had called start_polling and attempted the listener start.
C5_FallbackOnceThenRunning ==
    /\ fallbackRuns <= 1
    /\ (EntersFallback(importResult) /\ pc # "L47") => fallbackRuns = 1
    /\ dirSeen = "absent" =>
          /\ loaded = {}
          /\ Logged("Handlers directory not found")
          /\ ~crashed
          /\ (Exited /\ ~stopSignal /\ ~Logged("Error starting bot")) =>
                (calls.polling >= 1 /\ calls.listenerStart >= 1)

\* C6: once the fallback's loop is over, each of the three submodules was
\* attempted exactly once whatever happened to the others, each one whose
\* load did not fail is loaded, each failure is logged, and startup goes on.
C6_SubmoduleIsolation ==
    FallbackLoopDone =>
        /\ \A n \in SubNames :
              /\ Cardinality({i \in 1..Len(attempts) : attempts[i] = n}) = 1
              /\ loadResult[n] # "none"
              /\ loadResult[n] = "ok" => n \in loaded
              /\ loadResult[n] # "ok" => (n \notin loaded /\ Logged(FailMsg(n)))
        /\ ~crashed
        /\ exitStatus \in {-1, 0}

C6_Witness ==
    /\ FallbackLoopDone
    /\ \E n \in SubNames :
          /\ loadResult[n] \in {"create_fail", "exec_fail"}
          /\ \A m \in SubNames \ {n} : m \in loaded

\* C7: when start_server() raises inside on_startup, the one step that
\* follows logs the error, returns from the hook and enters the polling loop,
\* leaving no exception and changing nothing else; the process still exits
\* with status 0.
C7_ListenerFailureContained ==
    /\ [][(pc = "S83" /\ listener' = "failed") =>
             /\ pc' = "polling"
             /\ log' = Append(log, "Failed to start health check server")
             /\ pending' = "none"
             /\ UNCHANGED <<token, runAs, topVars, loadVars, mainCoro, calls,
                            storeTrace, stopSignal, updates, exitStatus, crashed>>]_vars
    /\ [](listener = "failed" =>
             /\ ~crashed
             /\ exitStatus \in {-1, 0}
             /\ Logged("Failed to start health check server"))

C7_Witness == listener = "failed" /\ pc = "polling"

\* C8: only a missing or rejected credential or a failed client construction
\* ends the process abnormally: run as the entry point, no exception goes
\* uncaught, and the exit status is non-zero only without a valid credential.
C8_OnlyCredentialFailuresAbort ==
    runAs = "__main__" =>
        /\ ~crashed
        /\ exitStatus > 0 => ~ValidRun

\* C9: with a valid credential, from the construction of the Dispatcher on
\* there are exactly one Client, one SessionStore and one Dispatcher, the
\* Dispatcher is bound to that Client and that SessionStore, and every close
\* / wait_closed is made on that SessionStore.
C9_OneClientStoreDispatcher ==
    /\ made.client <= 1 /\ made.store <= 1 /\ made.dispatcher <= 1
    /\ (ValidRun /\ pc \notin {"L22", "L36", "L37"}) =>
          /\ made.client = 1 /\ made.store = 1 /\ made.dispatcher = 1
          /\ bot # 0 /\ storage # 0
          /\ dp = [bot |-> bot, storage |-> storage]
    /\ \A i \in 1..Len(storeTrace) : storeTrace[i][3] = storage /\ storage # 0

C9_Witness == ValidRun /\ Exited /\ HasEvent("close", "done", storage)

\* C10: a process run as the entry point that ends, whichever phase failed,
\* has closed and then wait-closed the SessionStore it had created.
C10_StoreTornDownBeforeExit ==
    (runAs = "__main__" /\ Exited /\ made.store > 0) =>
        /\ HasEvent("close", "done", storage)
        /\ HasEvent("wait_closed", "done", storage)

\* C11: an exception raised by executor.start_polling inside main() is
\* handled by the one step that follows: it is logged, cleared, and main()
\* goes on to its normal return; it never reaches main()'s caller, and the
\* process ends neither by a traceback nor with a non-zero status.
C11_PollingErrorContained ==
    /\ [][pc = "M113" =>
             /\ pc' = "Mret"
             /\ pending' = "none"
             /\ log' = Append(log, "Error starting bot")
             /\ UNCHANGED <<exitStatus, crashed>>]_vars
    /\ [](pc \in {"Mret", "end", "exited"} => pending = "none")
    /\ [](Logged("Error starting bot") => (~crashed /\ exitStatus \in {-1, 0}))

C11_Witness ==
    /\ Logged("Error starting bot")
    /\ calls.startup = 0
    /\ mainCoro = "returned"
    /\ Exited /\ exitStatus = 0

ImportDecided == importResult # "none" /\ pc # "L47"

\* A step that loads, or tries to load, a handler module
LoadStep ==
    \/ importResult' # importResult
    \/ attempts' # attempts
    \/ loaded' # loaded
    \/ sysModules' # sysModules

\* C13 as stated: the fallback is entered exactly when the conventional
\* import failed because the handlers tree itself was not found.
C13_FallbackOnlyForMissingTree ==
    ImportDecided => ((fallbackRuns > 0) = (importResult = "mnf_tree"))

\* C13, amended: the fallback is entered exactly when the conventional
\* import raised ModuleNotFoundError, for the handlers tree or for a module
\* imported from inside an existing handlers package; after a successful
\* import or any other exception it is not entered.
C13_FallbackForAnyModuleNotFound ==
    /\ ImportDecided =>
          ((fallbackRuns = 1) = (importResult \in {"mnf_tree", "mnf_inner"}))
    /\ importResult \in {"none", "ok", "other"} =>
          (fallbackRuns = 0 /\ dirSeen = "unknown" /\ attempts = <<>>)

C13_Witness == importResult = "mnf_inner" /\ fallbackRuns = 1 /\ dirSeen # "unknown"

\* C14: every step that loads or tries to load a handler module (the
\* import of line 45, the package initializer, each submodule) is taken with
\* the one Dispatcher already bound to the Client and the SessionStore and
\* with start_polling not yet called; none is taken once polling has begun.
C14_LoadsBetweenBindAndPolling ==
    /\ [][LoadStep =>
             /\ made.dispatcher = 1
             /\ dp = [bot |-> bot, storage |-> storage]
             /\ bot # 0 /\ storage # 0
             /\ calls.polling = 0
             /\ calls.mainBody = 0]_vars
    /\ [](calls.polling > 0 => pc \notin {"L45", "L47", "L52", "L62"})

C14_Witness ==
    /\ calls.polling > 0
    /\ importResult = "mnf_tree"
    /\ Len(attempts) = 1 + Len(SubModules)

\* C15 as stated: the Dispatcher exists only once module resolution is over.
C15_DispatcherAfterResolution ==
    made.dispatcher > 0 =>
        /\ importResult # "none"
        /\ pc \notin {"L47", "L52", "L62"}

\* C15, amended: the Dispatcher is created at most once, exactly once with
\* a valid credential, and only after the Client and the SessionStore exist;
\* module resolution has not started when it is created.
C15_DispatcherAfterClientAndStore ==
    /\ [][made.dispatcher' # made.dispatcher =>
             /\ made.dispatcher = 0 /\ made.dispatcher' = 1
             /\ made.client = 1 /\ bot # 0
             /\ made.store = 1 /\ storage # 0
             /\ importResult = "none" /\ attempts = <<>>]_vars
    /\ []((ValidRun /\ pc \notin {"L22", "L36", "L37"}) => made.dispatcher = 1)
    /\ [](importResult # "none" => made.dispatcher = 1)

C15_Witness == made.dispatcher = 1 /\ pc = "L41" /\ importResult = "none"

\* C16: once the fallback's loads are over, the attempts made are the
\* package initializer followed by handlers.start, handlers.admin and
\* handlers.owner, each once and in that order, whatever the initializer's
\* outcome; a failed initializer load is logged and ends nothing.
C16_InitializerFailureIsolated ==
    /\ FallbackLoopDone =>
          /\ attempts = <<"handlers", "handlers.start", "handlers.admin", "handlers.owner">>
          /\ loadResult["handlers"] # "none"
          /\ loadResult["handlers"] # "ok" => Logged("Failed to load handlers package")
    /\ Logged("Failed to load handlers package") =>
          (~crashed /\ exitStatus \in {-1, 0} /\ pc # "L52")

C16_Witness ==
    /\ FallbackLoopDone
    /\ loadResult["handlers"] = "exec_fail"
    /\ \A n \in SubNames : n \in loaded

\* Names the fallback tried whose module object was created (the load got
\* as far as the sys.modules insertion)
Created == {n \in HandlerNames : loadResult[n] \in {"exec_fail", "ok"}}

\* C17: in the fallback a name is in sys.modules as soon as its module
\* object was created, also when its execution then failed; no entry is ever
\* removed; every executed module is registered; with the handlers directory
\* absent sys.modules holds no handler name put there by the fallback.
C17_RegistryKeepsCreatedModules ==
    /\ [][sysModules \subseteq sysModules']_vars
    /\ [](fallbackRuns > 0 =>
             /\ Created \subseteq sysModules
             /\ loaded \subseteq sysModules)
    /\ [](dirSeen = "absent" => (sysModules = {} /\ attempts = <<>>))

C17_Witness ==
    /\ FallbackLoopDone
    /\ \E n \in SubNames :
          loadResult[n] = "exec_fail" /\ n \in sysModules /\ n \notin loaded
    /\ \E n \in SubNames : loadResult[n] = "create_fail" /\ n \notin sysModules

\* Value of a decimal digit string, most significant digit first
RECURSIVE DecimalFrom(_, _, _)
DecimalFrom(s, i, acc) ==
    IF i > Len(s) THEN acc
    ELSE DecimalFrom(s, i + 1, acc * 10 + (IF s[i] = "8" THEN 8 ELSE 0))

\* PORT is set to the text of an integer
PortIsInteger == portEnv.set /\ portEnv.val # <<>> /\ \A i \in 1..Len(portEnv.val) : portEnv.val[i] # "x"

\* C18: with a valid credential the health-check server is constructed at
\* most once, and exactly once when PORT is unset or holds an integer; it is
\* bound to the Client the Dispatcher is bound to; its port is the integer
\* value of PORT when PORT is set and 8080 when it is not.
C18_ListenerClientAndPort ==
    /\ made.server <= 1
    /\ made.server = 1 =>
          /\ ValidRun
          /\ web_server.bot = dp.bot /\ web_server.bot = bot /\ bot # 0
          /\ ~portEnv.set => web_server.port = 8080
          /\ portEnv.set => (PortIsInteger /\ web_server.port = DecimalFrom(portEnv.val, 1, 0))
    /\ (ValidRun /\ pc \notin {"L22", "L36", "L37", "L41"} /\ (~portEnv.set \/ PortIsInteger)) =>
          made.server = 1
    /\ made.server = 0 => web_server = NoServer

C18_Witness == made.server = 1 /\ portEnv.set /\ web_server.port = 80 /\ Exited

====
